---- MODULE Spec2Model ----
(***************************************************************************)
(* Onboarding dialogue engine of aurasense-backend.                        *)
(*                                                                         *)
(* Python values are written as string tokens so that any two values can   *)
(* be compared: "None", "[]" (empty list), "''" (empty string), "False",   *)
(* "True", "0", and opaque non-empty values ("25", "['veg']", ...).        *)
(* A dict is a function whose DOMAIN is its key set.                       *)
(***************************************************************************)
EXTENDS Naturals, Sequences, FiniteSets, TLC

(* ---------------------------------------------------------------------- *)
(* Bounds                                                                  *)
(* ---------------------------------------------------------------------- *)
MaxTurns == 3

(* ---------------------------------------------------------------------- *)
(* Python value helpers                                                    *)
(* ---------------------------------------------------------------------- *)
None == "None"

Falsy(v) == v \in {"None", "[]", "''", "False", "0"}

EmptyDict == [k \in {} |-> None]

Get(d, k) == IF k \in DOMAIN d THEN d[k] ELSE None

GetDefault(d, k, dflt) == IF k \in DOMAIN d THEN d[k] ELSE dflt

(* a variant of the overlay in which the older layer wins *)
update_keeping_old(d, e) ==
    [k \in (DOMAIN d) \cup (DOMAIN e) |-> IF k \in DOMAIN d THEN d[k] ELSE e[k]]

(* {**d, **e}, d.update(e) *)
Update(d, e) == [k \in (DOMAIN d) \cup (DOMAIN e) |-> IF k \in DOMAIN e THEN e[k] ELSE d[k]]

Range(s) == {s[i] : i \in 1..Len(s)}

RECURSIVE SelectSeqBy(_, _)
SelectSeqBy(s, keep) ==
    IF s = <<>> THEN <<>>
    ELSE IF Head(s) \in keep THEN <<Head(s)>> \o SelectSeqBy(Tail(s), keep)
    ELSE SelectSeqBy(Tail(s), keep)

(* ---------------------------------------------------------------------- *)
(* Field catalogs                                                          *)
(* ---------------------------------------------------------------------- *)
ONBOARDING_REQUIRED_FIELDS ==
    <<"age", "dietary_restrictions", "cuisine_preferences", "price_range",
      "is_tourist", "cultural_background", "food_allergies",
      "spice_tolerance", "preferred_languages">>

onboarding_fields ==
    <<"age", "dietary_restrictions", "cuisine_preferences", "price_range",
      "is_tourist", "cultural_background", "food_allergies",
      "spice_tolerance", "preferred_languages", "phone">>

UserInformationFields ==
    {"email", "first_name", "last_name", "username", "phone", "password",
     "age", "dietary_restrictions", "cuisine_preferences", "price_range",
     "is_tourist", "cultural_background", "food_allergies",
     "spice_tolerance", "preferred_languages"}

(* Field(default=...) of the UserInformation schema *)
UserInformationDefault(f) ==
    CASE f \in {"dietary_restrictions", "cuisine_preferences",
                "cultural_background", "food_allergies"} -> "[]"
      [] f = "is_tourist" -> "False"
      [] f = "preferred_languages" -> "['en']"
      [] OTHER -> None

(* properties the User node class declares *)
UserProperties ==
    {"email", "username", "first_name", "last_name", "phone", "age",
     "dietary_restrictions", "cuisine_preferences", "price_range",
     "is_tourist"}

(* attributes of User that tools.py, onboarding.py and auth.py read and   *)
(* write but that models/user.py does not declare                         *)
UndeclaredUserAttributes ==
    {"cultural_background", "food_allergies", "spice_tolerance",
     "preferred_languages", "is_onboarded"}

(* every attribute name the onboarding code touches on a User object *)
ReferencedUserAttributes == UserProperties \cup UndeclaredUserAttributes

(* len(current_state) > 3 in generate_contextual_onboarding_question *)
ContextThreshold == 3

(* ---------------------------------------------------------------------- *)
(* Collaborators: users, utterances, completion output                     *)
(* ---------------------------------------------------------------------- *)
Ann == "ann@x"
Bob == "bob@x"
Emails == {Ann, Bob}

FirstName(e) == IF e = Ann THEN "Ann" ELSE "Bob"

Utterances == {"hello", "age", "profile", "phone", "nulls", "email"}

(* the structured output the completion capability gives for an utterance: *)
(* only the fields it set; the schema fills in the others                  *)
LLMOutput(u) ==
    CASE u = "age" -> [k \in {"age"} |-> "25"]
      [] u = "profile" ->
            [k \in Range(ONBOARDING_REQUIRED_FIELDS) |->
                CASE k = "age" -> "30"
                  [] k = "dietary_restrictions" -> "['veg']"
                  [] k = "cuisine_preferences" -> "['it']"
                  [] k = "price_range" -> "mid-range"
                  [] k = "is_tourist" -> "True"
                  [] k = "cultural_background" -> "['x']"
                  [] k = "food_allergies" -> "['nuts']"
                  [] k = "spice_tolerance" -> "3"
                  [] OTHER -> "['fr']"]
      [] u = "phone" -> [k \in {"phone"} |-> "555"]
      [] u = "nulls" ->
            [k \in {"is_tourist", "preferred_languages", "phone", "dietary_restrictions"} |->
                CASE k = "phone" -> "''"
                  [] k = "dietary_restrictions" -> "[]"
                  [] OTHER -> None]
      [] u = "email" -> [k \in {"email"} |-> Bob]
      [] OTHER -> EmptyDict

(* ---------------------------------------------------------------------- *)
(* tools.py                                                                *)
(* ---------------------------------------------------------------------- *)

(* response.model_dump(): every schema field, defaults where unset *)
model_dump(raw) ==
    [f \in UserInformationFields |-> GetDefault(raw, f, UserInformationDefault(f))]

(* value is not None and value != [] and value != "" *)
ExtractionKeeps(v) == v \notin {"None", "[]", "''"}

(* filtered_result: the entries of result whose value is kept *)
FilteredResult(result) ==
    LET kept == {f \in DOMAIN result : ExtractionKeeps(result[f])}
    IN [f \in kept |-> result[f]]

(* what extraction gives for each utterance when the completion call succeeds *)
ExtractionOf == [u \in Utterances |-> FilteredResult(model_dump(LLMOutput(u)))]

(* extract_user_information: {} when the completion call fails *)
extract_user_information(text, llm) ==
    IF llm # "ok" THEN EmptyDict ELSE ExtractionOf[text]

(* value is None or (isinstance(value, list) and len(value) == 0) *)
StateMissing(v) == v \in {"None", "[]"}

(* the attribute reads of get_user_onboarding_state, lines 541-555 *)
StateReadAttributes ==
    {"email", "first_name", "last_name", "username", "phone", "age",
     "dietary_restrictions", "cuisine_preferences", "price_range",
     "is_tourist", "cultural_background", "food_allergies",
     "spice_tolerance", "preferred_languages", "is_onboarded"}

(* current_state as built from the user node: `or []`, `or ["en"]` *)
CurrentStateOf(user) ==
    [f \in StateReadAttributes |->
        CASE f \in {"dietary_restrictions", "cuisine_preferences",
                    "cultural_background", "food_allergies"} ->
                 (IF Falsy(user[f]) THEN "[]" ELSE user[f])
          [] f = "preferred_languages" ->
                 (IF Falsy(user[f]) THEN "['en']" ELSE user[f])
          [] OTHER -> user[f]]

(* a variant that lists the missing fields from the end of the catalog *)
missing_fields_from_end(current_state) ==
    LET missing == SelectSeqBy(onboarding_fields,
                       {f \in Range(onboarding_fields) : StateMissing(Get(current_state, f))})
    IN [i \in 1..Len(missing) |-> missing[Len(missing) + 1 - i]]

(* missing_fields of get_user_onboarding_state, lines 558-563 *)
MissingFieldsOf(current_state) ==
    SelectSeqBy(onboarding_fields,
                {f \in Range(onboarding_fields) : StateMissing(Get(current_state, f))})

Failure(msg) ==
    [success |-> FALSE, message |-> msg, missing_fields |-> <<>>,
     current_state |-> EmptyDict]

(* get_user_onboarding_state(user_email); up: the store answers *)
get_user_onboarding_state(store, user_email, up) ==
    IF ~up THEN Failure("store unavailable")
    ELSE IF user_email \notin DOMAIN store THEN Failure("User not found")
    ELSE IF ~(StateReadAttributes \subseteq DOMAIN store[user_email])
         THEN Failure("'User' object has no attribute")
    ELSE LET cs == CurrentStateOf(store[user_email])
         IN [success |-> TRUE, message |-> "", missing_fields |-> MissingFieldsOf(cs),
             current_state |-> cs]

BaseQuestion(missing_field, current_state) ==
    LET first_name == GetDefault(current_state, "first_name", "''")
    IN <<"question", missing_field, IF Falsy(first_name) THEN "" ELSE first_name>>

(* a variant that does not catch the failure of the completion call: no   *)
(* question comes back                                                     *)
question_without_fallback(missing_field, current_state, restyle) ==
    IF Cardinality(DOMAIN current_state) > ContextThreshold
    THEN CASE restyle = "text" -> <<"restyled", missing_field>>
           [] OTHER -> <<>>
    ELSE BaseQuestion(missing_field, current_state)

(* generate_contextual_onboarding_question; restyle: what the completion  *)
(* call gives: "fail" (raises), "text", or "empty" (blank content)        *)
generate_contextual_onboarding_question(missing_field, current_state, restyle) ==
    IF Cardinality(DOMAIN current_state) > ContextThreshold
    THEN CASE restyle = "text" -> <<"restyled", missing_field>>
           [] restyle = "empty" -> <<>>
           [] OTHER -> BaseQuestion(missing_field, current_state)
    ELSE BaseQuestion(missing_field, current_state)

(* the attributes save_user_to_graph_db assigns, lines 669-679 *)
SaveAttributes ==
    {"username", "phone", "age", "dietary_restrictions", "cuisine_preferences",
     "price_range", "is_tourist", "cultural_background", "food_allergies",
     "spice_tolerance", "preferred_languages"}

(* user.save(): the node keeps the values of the properties the class has *)
Persist(user, assigned) ==
    [f \in DOMAIN user |-> IF f \in DOMAIN assigned THEN assigned[f] ELSE user[f]]

(* save_user_to_graph_db(user_info) *)
save_user_to_graph_db(store, user_info, up) ==
    LET email == Get(user_info, "email")
    IN IF Falsy(email)
       THEN [success |-> FALSE, message |-> "Email is required to save user", store |-> store]
       ELSE IF ~up
       THEN [success |-> FALSE, message |-> "store unavailable", store |-> store]
       ELSE IF email \notin DOMAIN store
       THEN [success |-> FALSE, message |-> "User not found", store |-> store]
       ELSE IF ~(SaveAttributes \subseteq DOMAIN store[email])
       THEN [success |-> FALSE, message |-> "'User' object has no attribute", store |-> store]
       ELSE LET user == store[email]
                assigned == [f \in SaveAttributes \cup {"is_onboarded"} |->
                               IF f = "is_onboarded" THEN "True"
                               ELSE GetDefault(user_info, f, user[f])]
            IN [success |-> TRUE,
                message |-> "User onboarding completed and saved to graph DB",
                store |-> [store EXCEPT ![email] = Persist(user, assigned)]]

(* ---------------------------------------------------------------------- *)
(* state.py, nodes.py                                                      *)
(* ---------------------------------------------------------------------- *)

(* OnboardingAgentState; a key that is not set reads as None *)
OnboardingAgentState(info, status, response, err) ==
    [transcribed_text |-> None, extracted_information |-> info,
     onboarding_status |-> status, system_response |-> response, error |-> err]

(* what one run of the graph did, kept for the properties *)
NoTrace ==
    [path |-> <<>>, called |-> FALSE, extracted |-> EmptyDict, key |-> None,
     wrote |-> {}, unsaved |-> {}, read |-> "skip", seen |-> EmptyDict,
     missing |-> <<>>,
     restyled |-> FALSE, mark |-> "skip", message |-> ""]

(* an input: text (possibly empty), audio bytes with what transcription   *)
(* gives for them ("fail": it raises), or empty bytes                      *)
TextInput(u) == [kind |-> "text", u |-> u]

AudioInput(u) == [kind |-> "audio", u |-> u]

transcription_node(c, inp) ==
    LET st == c.st
        st1 ==
          CASE inp.kind = "audio" /\ inp.u = "fail" ->
                 [st EXCEPT !.error = "Transcription failed",
                            !.system_response = <<"apology", "audio">>]
            [] inp.kind = "audio" -> [st EXCEPT !.transcribed_text = inp.u]
            [] inp.kind = "text" -> [st EXCEPT !.transcribed_text = inp.u]
            [] OTHER ->
                 [st EXCEPT !.error = "No valid input provided",
                            !.system_response = <<"apology", "no input">>]
    IN [c EXCEPT !.st = st1, !.tr.path = Append(@, "transcription")]

(* for field, value in extracted.items():                                  *)
(*     if hasattr(user, field) and value is not None: setattr(...)         *)
ImmediateAssignments(user, extracted) ==
    LET fs == {f \in DOMAIN extracted : f \in DOMAIN user /\ extracted[f] # None}
    IN [f \in fs |-> extracted[f]]

(* not current_info.get(f) *)
FallbackMissing(current_info) ==
    SelectSeqBy(ONBOARDING_REQUIRED_FIELDS,
                {f \in Range(ONBOARDING_REQUIRED_FIELDS) : Falsy(Get(current_info, f))})

(* a variant that does not stop at the missing email: the state goes on   *)
(* to completion                                                           *)
ask_for_email_and_go_on(st, current_info) ==
    [st EXCEPT !.extracted_information = current_info,
               !.onboarding_status = "ready",
               !.system_response = <<"ask email">>]

(* the branch of information_extraction_node taken when current_info has   *)
(* no email, lines 114-117                                                 *)
ask_for_email(st, current_info) ==
    [st EXCEPT !.extracted_information = current_info,
               !.onboarding_status = "pending_info",
               !.system_response = <<"ask email">>]

(* information_extraction_node; env: what each collaborator call gives *)
information_extraction_node(c, env) ==
    LET st == c.st
        text == st.transcribed_text
    IN IF Falsy(text)
       THEN [c EXCEPT !.st.error = "No text to extract information from",
                      !.st.system_response = <<"apology", "no text">>,
                      !.tr.path = Append(@, "info_extraction")]
       ELSE
       LET extracted == extract_user_information(text, env.llm)
           current_info == Update(st.extracted_information, extracted)
           user_email == Get(current_info, "email")
           saves == ~Falsy(user_email) /\ extracted # EmptyDict
           assigned == IF saves /\ env.save1 /\ user_email \in DOMAIN c.db
                       THEN ImmediateAssignments(c.db[user_email], extracted)
                       ELSE EmptyDict
           db1 == IF DOMAIN assigned = {} THEN c.db
                  ELSE [c.db EXCEPT ![user_email] = Persist(@, assigned)]
           catalog == DOMAIN extracted \cap Range(onboarding_fields)
           unsaved == {f \in catalog :
                          \/ Falsy(user_email)
                          \/ user_email \notin DOMAIN db1
                          \/ Get(db1[user_email], f) # extracted[f]}
           tr1 == [c.tr EXCEPT !.path = Append(@, "info_extraction"),
                               !.called = TRUE, !.extracted = extracted,
                               !.key = user_email, !.wrote = DOMAIN assigned,
                               !.unsaved = unsaved]
       IN IF Falsy(user_email)
          THEN [st |-> ask_for_email(st, current_info), db |-> db1, tr |-> tr1]
          ELSE
          LET db_state == get_user_onboarding_state(db1, user_email, env.read1)
              view == IF db_state.success
                      THEN Update(db_state.current_state, current_info)
                      ELSE current_info
              missing_fields == IF db_state.success THEN db_state.missing_fields
                                ELSE FallbackMissing(current_info)
              asks == missing_fields # <<>>
              tr2 == [tr1 EXCEPT !.read = IF db_state.success THEN "ok" ELSE "fail",
                                 !.seen = db_state.current_state,
                                 !.missing = missing_fields,
                                 !.restyled = asks /\ Cardinality(DOMAIN view) > ContextThreshold]
          IN [st |-> [st EXCEPT
                        !.extracted_information = view,
                        !.onboarding_status = IF asks THEN "pending_info" ELSE "ready",
                        !.system_response =
                            IF asks
                            THEN generate_contextual_onboarding_question(
                                     missing_fields[1], view, env.restyle)
                            ELSE <<"perfect">>],
              db |-> db1, tr |-> tr2]

(* all(info.get(f) for f in ONBOARDING_REQUIRED_FIELDS) *)
FallbackComplete(info) ==
    \A f \in Range(ONBOARDING_REQUIRED_FIELDS) : ~Falsy(Get(info, f))

Congratulations(first_name) ==
    <<"congratulations", IF Falsy(first_name) THEN "" ELSE first_name>>

(* a variant of onboarding_complete that returns the state as it got it *)
onboarding_complete_passes_on(c, env) ==
    [c EXCEPT !.tr.path = Append(@, "onboarding_complete")]

onboarding_complete_node(c, env) ==
    LET st == c.st
        info == st.extracted_information
        user_email == Get(info, "email")
        tr0 == [c.tr EXCEPT !.path = Append(@, "onboarding_complete")]
    IN IF Falsy(user_email)
       THEN [c EXCEPT !.st.onboarding_status = "pending_info",
                      !.st.system_response = <<"need email">>,
                      !.tr = tr0]
       ELSE
       LET db_state == get_user_onboarding_state(c.db, user_email, env.read2)
           attempt == IF db_state.success THEN db_state.missing_fields = <<>>
                      ELSE FallbackComplete(info)
           save_result == save_user_to_graph_db(c.db, info, env.save2)
           greeting == IF db_state.success
                       THEN Congratulations(GetDefault(info, "first_name", "''"))
                       ELSE Congratulations("''")
       IN IF ~attempt
          THEN [c EXCEPT !.st.onboarding_status = "pending_info",
                         !.st.system_response =
                             IF db_state.success
                             THEN <<"still need", "count">>
                             ELSE <<"still need", "a bit more">>,
                         !.tr = tr0]
          ELSE IF save_result.success
          THEN [st |-> [st EXCEPT !.onboarding_status = "onboarded",
                                  !.system_response = greeting],
                db |-> save_result.store,
                tr |-> [tr0 EXCEPT !.mark = "ok", !.message = save_result.message]]
          ELSE [st |-> [st EXCEPT !.onboarding_status = "failed",
                                  !.system_response = <<"Onboarding failed", save_result.message>>],
                db |-> c.db,
                tr |-> [tr0 EXCEPT !.mark = "fail", !.message = save_result.message]]

(* a variant in which generate_response is entered a second time *)
generate_response_twice(c) ==
    [c EXCEPT !.tr.path = @ \o <<"generate_response", "generate_response">>]

generate_response_node(c) ==
    LET st == c.st
        text == IF st.system_response # <<>> THEN st.system_response
                ELSE CASE st.onboarding_status = "pending_info" -> <<"provide authentication information">>
                       [] st.onboarding_status = "pending_verification" -> <<"complete voice verification">>
                       [] st.onboarding_status = "failed" -> <<"authentication failed">>
                       [] OTHER -> <<"how can I help">>
    IN [c EXCEPT !.st.system_response = text, !.tr.path = Append(@, "generate_response")]

end_interaction_node(c) ==
    [c EXCEPT !.st.system_response = <<"Authentication complete. Thank you!">>,
              !.tr.path = Append(@, "end_interaction")]

(* a variant that also sends a state marked failed to generate_response *)
needs_more_info_or_failed(st) == st.onboarding_status \in {"pending_info", "failed"}

needs_more_info(st) == st.onboarding_status = "pending_info"

(* a variant that takes a failed completion for a finished one *)
is_onboarded_or_failed(st) == st.onboarding_status \in {"onboarded", "failed"}

is_onboarded(st) == st.onboarding_status = "onboarded"

(* ---------------------------------------------------------------------- *)
(* graph.py                                                                *)
(* ---------------------------------------------------------------------- *)

(* what each collaborator call of one run gives: llm (extraction) and      *)
(* restyle (question styling) are completion calls; save1 the immediate    *)
(* save, read1 and read2 the two reads of the user's state, save2 the      *)
(* mark-onboarded write; TRUE: the store answers                           *)
NoEnv ==
    [llm |-> "ok", restyle |-> "fail", save1 |-> TRUE, read1 |-> TRUE,
     read2 |-> TRUE, save2 |-> TRUE]

RestyleOutcomes == {"fail", "text", "empty"}

(* the outcomes of the calls info_extraction makes on this state *)
ExtractionEnvs(c1) ==
    LET text == c1.st.transcribed_text
    IN IF Falsy(text) THEN {NoEnv}
       ELSE UNION {
              LET extracted == extract_user_information(text, llm)
                  email == Get(Update(c1.st.extracted_information, extracted), "email")
              IN [llm : {llm},
                  restyle : IF Falsy(email) THEN {"fail"} ELSE RestyleOutcomes,
                  save1 : IF Falsy(email) \/ extracted = EmptyDict THEN {TRUE} ELSE BOOLEAN,
                  read1 : IF Falsy(email) THEN {TRUE} ELSE BOOLEAN,
                  read2 : {TRUE}, save2 : {TRUE}]
              : llm \in {"ok", "fail"} }

(* the outcomes of the calls onboarding_complete makes on this state *)
CompletionEnvs(c2, env) ==
    IF Falsy(Get(c2.st.extracted_information, "email")) THEN {env}
    ELSE {[env EXCEPT !.read2 = r, !.save2 = w] : r \in BOOLEAN, w \in BOOLEAN}

(* the compiled graph: transcription -> info_extraction ->                 *)
(* (generate_response | onboarding_complete -> (end_interaction |          *)
(* generate_response)) -> END; all the runs the collaborators allow        *)
ainvoke(st, store, inp) ==
    LET c1 == transcription_node([st |-> st, db |-> store, tr |-> NoTrace], inp)
    IN UNION {
         LET c2 == information_extraction_node(c1, env)
         IN IF env.restyle # "fail" /\ ~c2.tr.restyled THEN {}
            ELSE IF needs_more_info(c2.st)
            THEN {[env |-> env, c |-> generate_response_node(c2)]}
            ELSE UNION {
                   LET c3 == onboarding_complete_node(c2, env2)
                   IN IF ~env2.save2 /\ c3.tr.mark = "skip" THEN {}
                      ELSE IF is_onboarded(c3.st)
                      THEN {[env |-> env2, c |-> end_interaction_node(c3)]}
                      ELSE {[env |-> env2, c |-> generate_response_node(c3)]}
                   : env2 \in CompletionEnvs(c2, env) }
         : env \in ExtractionEnvs(c1) }

(* the state run_onboarding_agent returns when graph.ainvoke raises: only  *)
(* error and system_response are set                                       *)
GraphFailedState ==
    [transcribed_text |-> None, extracted_information |-> EmptyDict,
     onboarding_status |-> None, system_response |-> <<"An error occurred">>,
     error |-> "graph"]

(* run_onboarding_agent(user_input, existing_user_data): every result;     *)
(* graph: "ok", or "raised" when graph.ainvoke raises, which is caught     *)
run_onboarding_agent(user_input, existing_user_data, store) ==
    LET initial_state == OnboardingAgentState(existing_user_data, "pending_info",
                                              <<>>, None)
    IN {[graph |-> "ok", raised |-> FALSE, env |-> run.env, c |-> run.c]
        : run \in ainvoke(initial_state, store, user_input)}
       \cup {[graph |-> "raised", raised |-> FALSE, env |-> NoEnv,
              c |-> [st |-> GraphFailedState, db |-> store, tr |-> NoTrace]]}

(* continue_onboarding_conversation(current_state, new_input): every       *)
(* result; when graph.ainvoke raises, the exception reaches the caller     *)
continue_onboarding_conversation(current_state, new_input, store) ==
    {[graph |-> "ok", raised |-> FALSE, env |-> run.env, c |-> run.c]
     : run \in ainvoke(current_state, store, new_input)}
    \cup {[graph |-> "raised", raised |-> TRUE, env |-> NoEnv,
           c |-> [st |-> current_state, db |-> store, tr |-> NoTrace]]}

(* ---------------------------------------------------------------------- *)
(* routes/onboarding.py                                                    *)
(* ---------------------------------------------------------------------- *)
(* requests: the /input requests that run interleaved with one another,    *)
(* each with what it holds between two of its steps                        *)
VARIABLES userAttrs, db, sessions, websocket, onboarding_sessions, turns,
          requests

vars == <<userAttrs, db, sessions, websocket, onboarding_sessions, turns,
          requests>>

SessionIds == {"s1"}

HttpTexts == {TextInput(u) : u \in Utterances \cup {"''"}}

(* value is not None and value != [] and value != "" *)
ProgressCounts(v) == v \notin {"None", "[]", "''"}

_calculate_progress(extracted_info) ==
    10 * Cardinality({f \in Range(onboarding_fields) :
                          ProgressCounts(Get(extracted_info, f))})

(* the state_json of _store_session_state. system_response is stored and   *)
(* reloaded too (lines 227, 265); every run of the graph overwrites it     *)
(* before reading it, so the stored copy is left out of the state          *)
StoredState(st) ==
    [extracted_information |-> st.extracted_information,
     onboarding_status |-> IF st.onboarding_status = None THEN "pending_info"
                           ELSE st.onboarding_status,
     error |-> IF st.error = None THEN "" ELSE st.error]

(* _get_session_state: the stored state *)
LoadedState(stored) ==
    OnboardingAgentState(stored.extracted_information, stored.onboarding_status,
                         <<>>, stored.error)

(* the state process_onboarding_input builds when no session is found *)
FreshState(current_user) ==
    OnboardingAgentState(
        [k \in {"email", "first_name", "last_name"} |-> current_user[k]],
        "pending_info", <<>>, None)

(* the attributes _save_onboarding_to_user assigns, lines 304-313 *)
ProfileAttributes ==
    {"phone", "age", "dietary_restrictions", "cuisine_preferences",
     "price_range", "is_tourist", "cultural_background", "food_allergies",
     "spice_tolerance", "preferred_languages"}

(* _save_onboarding_to_user(user, extracted_info): user is the node the    *)
(* request loaded before the turn; any exception is logged and dropped     *)
_save_onboarding_to_user(store, user, extracted_info, up) ==
    IF ~up \/ ~(ProfileAttributes \subseteq DOMAIN user) THEN store
    ELSE LET assigned == [f \in ProfileAttributes \cup {"is_onboarded"} |->
                            IF f = "is_onboarded" THEN "True"
                            ELSE GetDefault(extracted_info, f, user[f])]
         IN [store EXCEPT ![user["email"]] = Persist(user, assigned)]

(* a newly registered user, as routes/auth.py creates it *)
Registered(e, attrs) ==
    [f \in attrs |->
        CASE f = "email" -> e
          [] f = "first_name" -> FirstName(e)
          [] f = "last_name" -> "Doe"
          [] f \in {"is_tourist", "is_onboarded"} -> "False"
          [] OTHER -> None]

(* MERGE (s:OnboardingSession {session_id, user_id}) SET s.state = ... *)
PutSession(sess, sid, stored) ==
    [k \in DOMAIN sess \cup {sid} |-> IF k = sid THEN stored ELSE sess[k]]

(* MATCH (s:OnboardingSession {session_id, user_id}) DELETE s *)
_cleanup_session_state(sess, sid) ==
    [k \in DOMAIN sess \ {sid} |-> sess[k]]

(* the attribute reads of the fallback user_info of start_onboarding *)
StartReadAttributes ==
    {"email", "first_name", "last_name", "phone", "age", "dietary_restrictions",
     "cuisine_preferences", "price_range", "is_tourist", "cultural_background",
     "food_allergies", "spice_tolerance", "preferred_languages"}

(* user_info of start_onboarding when the read of the user's state failed *)
StartFallbackInfo(current_user) ==
    [f \in StartReadAttributes |->
        CASE f \in {"dietary_restrictions", "cuisine_preferences",
                    "cultural_background", "food_allergies"} ->
                 (IF Falsy(current_user[f]) THEN "[]" ELSE current_user[f])
          [] f = "preferred_languages" ->
                 (IF Falsy(current_user[f]) THEN "['en']" ELSE current_user[f])
          [] OTHER -> current_user[f]]

(* POST /onboarding/start by the authenticated user Ann, answered with the *)
(* new session id sid: every outcome of the request on (store, sess).      *)
(* read: the store answers the read of the user's state; restyle: what the *)
(* completion call gives; stores: the session query answers                *)
start_onboarding(sid, store, sess) ==
    LET current_user == store[Ann]
        first_name == current_user["first_name"]
    IN UNION {
         LET db_state == get_user_onboarding_state(store, Ann, read)
             asks == db_state.success /\ db_state.missing_fields # <<>>
             raised == ~db_state.success
                       /\ ~(StartReadAttributes \subseteq DOMAIN current_user)
             user_info == IF db_state.success THEN db_state.current_state
                          ELSE IF raised THEN EmptyDict
                          ELSE StartFallbackInfo(current_user)
             response_text ==
                 IF db_state.success
                 THEN IF asks
                      THEN generate_contextual_onboarding_question(
                               db_state.missing_fields[1], db_state.current_state, restyle)
                      ELSE <<"welcome back", first_name>>
                 ELSE <<"welcome", first_name>>
             onboarding_status == IF db_state.success /\ ~asks THEN "onboarded"
                                  ELSE "pending_info"
             initial_state == OnboardingAgentState(user_info, onboarding_status,
                                                   response_text, None)
         IN IF raised
            THEN {[op |-> "start", sid |-> sid, read |-> read, raised |-> TRUE,
                   stores |-> TRUE, message |-> <<"HTTP 500">>, status |-> None,
                   progress |-> 0, db |-> store, sessions |-> sess]}
            ELSE {[op |-> "start", sid |-> sid, read |-> read, raised |-> FALSE,
                   stores |-> stores, message |-> response_text,
                   status |-> onboarding_status,
                   progress |-> _calculate_progress(user_info), db |-> store,
                   sessions |-> IF stores
                                THEN PutSession(sess, sid, StoredState(initial_state))
                                ELSE sess]
                  : stores \in BOOLEAN}
         : read \in BOOLEAN, restyle \in RestyleOutcomes }

(* POST /onboarding/input by the authenticated user Ann: every outcome of  *)
(* the request on (store, sess). loads, stores: the session queries        *)
(* answer; raised: graph.ainvoke raises; save3: the store answers the      *)
(* final profile save                                                      *)
process_onboarding_input(sid, store, sess) ==
    LET current_user == store[Ann]
    IN UNION {
         LET found == loads /\ sid \in DOMAIN sess
             current_state == IF found THEN LoadedState(sess[sid])
                              ELSE FreshState(current_user)
             base == [op |-> "input", sid |-> sid, inp |-> inp, loads |-> loads,
                      fresh |-> ~found, before |-> current_state]
         IN UNION {
              LET state == run.c.st
                  onboarded == state.onboarding_status = "onboarded"
              IN IF run.raised
                 THEN {base @@
                         [raised |-> TRUE, graph |-> run.graph,
                          stores |-> TRUE, save3 |-> TRUE, env |-> run.env, state |-> state, tr |-> run.c.tr,
                          message |-> <<"HTTP 500">>, status |-> None, progress |-> 0,
                          db |-> store, sessions |-> sess]}
                 ELSE {base @@
                         [raised |-> FALSE, graph |-> run.graph,
                          stores |-> stores, save3 |-> save3, env |-> run.env, state |-> state, tr |-> run.c.tr,
                          message |-> state.system_response,
                          status |-> state.onboarding_status,
                          progress |-> _calculate_progress(state.extracted_information),
                          db |-> IF onboarded
                                 THEN _save_onboarding_to_user(
                                          run.c.db, current_user,
                                          state.extracted_information, save3)
                                 ELSE run.c.db,
                          sessions |-> IF stores
                                       THEN PutSession(sess, sid, StoredState(state))
                                       ELSE sess]
                       : stores \in BOOLEAN,
                         save3 \in IF onboarded THEN BOOLEAN ELSE {TRUE}}
              : run \in continue_onboarding_conversation(current_state, inp, store) }
         : inp \in HttpTexts,
           loads \in IF sid \in DOMAIN sess THEN BOOLEAN ELSE {TRUE} }

(* POST /onboarding/stop: the session is deleted unless the query fails *)
stop_onboarding(sid, sess) ==
    {[op |-> "stop", sid |-> sid, cleans |-> cleans,
      message |-> <<"start exploring">>,
      sessions |-> IF cleans THEN _cleanup_session_state(sess, sid) ELSE sess]
     : cleans \in BOOLEAN}

(* ---------------------------------------------------------------------- *)
(* routes/onboarding_ws.py                                                 *)
(* ---------------------------------------------------------------------- *)
WsIds == {"w1"}

(* the keys of existing_user_data *)
ExistingDataKeys ==
    {"email", "first_name", "last_name", "username", "phone", "age",
     "dietary_restrictions", "cuisine_preferences", "price_range", "is_tourist"}

(* existing_user_data as read from the user node on connect *)
ExistingUserData(user) == [f \in ExistingDataKeys |-> user[f]]

Closed == [open |-> FALSE, session_id |-> None, existing_user_data |-> EmptyDict]

WsTexts == {TextInput(u) : u \in {"profile", "hello", "''"}}

WsAudios == {AudioInput(u) : u \in {"phone", "fail"}} \cup {[kind |-> "empty_bytes", u |-> "''"]}

(* the entry of onboarding_sessions: the final state of the turn.          *)
(* system_response is kept in it too; every run of the graph overwrites    *)
(* it before reading it, so it is left out. aliased: extracted_information *)
(* is still the dict object existing_user_data                             *)
WsEntry(st, aliased) ==
    [state |-> [st EXCEPT !.system_response = <<>>], aliased |-> aliased]

(* one user_message or user_audio frame on the open connection: every      *)
(* outcome on (store, ws, wsess). downloads: download_audio_from_url       *)
(* answers                                                                 *)
ws_turn(kind, store, ws, wsess) ==
    LET session_id == ws.session_id
        found == session_id \in DOMAIN wsess
        before == IF found THEN wsess[session_id].state
                  ELSE OnboardingAgentState(ws.existing_user_data, "pending_info",
                                            <<>>, None)
        base == [op |-> kind, fresh |-> ~found, before |-> before]
        failed(inp, graph) == base @@
            [inp |-> inp, raised |-> TRUE, graph |-> graph, env |-> NoEnv,
             tr |-> NoTrace, state |-> before, message |-> <<"error">>,
             status |-> None, db |-> store, websocket |-> ws,
             onboarding_sessions |-> wsess]
    IN UNION {
         IF kind = "user_audio" /\ ~downloads THEN {failed(inp, "none")}
         ELSE {
           LET final_state == run.c.st
               tr == run.c.tr
               aliased == IF found THEN wsess[session_id].aliased ELSE TRUE
               touched == aliased /\ tr.called
               existing1 == IF touched
                            THEN Update(ws.existing_user_data, tr.extracted)
                            ELSE ws.existing_user_data
               aliased1 == run.graph = "ok" /\ aliased /\ tr.read # "ok"
               onboarding_status == IF final_state.onboarding_status = None
                                    THEN "pending_info"
                                    ELSE final_state.onboarding_status
               stored == [k \in DOMAIN wsess \cup {session_id} |->
                             IF k = session_id THEN WsEntry(final_state, aliased1)
                             ELSE wsess[k]]
           IN IF run.raised THEN failed(inp, run.graph)
              ELSE base @@
                [inp |-> inp, raised |-> FALSE, graph |-> run.graph,
                 env |-> run.env, tr |-> tr,
                 state |-> final_state, message |-> final_state.system_response,
                 status |-> onboarding_status, db |-> run.c.db,
                 websocket |-> [ws EXCEPT !.existing_user_data = existing1],
                 onboarding_sessions |->
                     IF onboarding_status = "onboarded"
                     THEN [k \in DOMAIN stored \ {session_id} |-> stored[k]]
                     ELSE stored]
           : run \in IF found
                     THEN continue_onboarding_conversation(
                              wsess[session_id].state, inp, store)
                     ELSE run_onboarding_agent(inp, ws.existing_user_data, store) }
         : inp \in IF kind = "user_audio" THEN WsAudios ELSE WsTexts,
           downloads \in IF kind = "user_audio" THEN BOOLEAN ELSE {TRUE} }

Init ==
    /\ userAttrs \in {UserProperties, ReferencedUserAttributes}
    /\ db = [e \in Emails |-> Registered(e, userAttrs)]
    /\ sessions = EmptyDict
    /\ websocket = Closed
    /\ onboarding_sessions = EmptyDict
    /\ turns = 0
    /\ requests = EmptyDict

StartOnboarding(sid) ==
    /\ turns < MaxTurns
    /\ sid \notin DOMAIN sessions
    /\ \E o \in start_onboarding(sid, db, sessions) :
         /\ db' = o.db
         /\ sessions' = o.sessions
    /\ turns' = turns + 1
    /\ UNCHANGED <<userAttrs, websocket, onboarding_sessions, requests>>

ProcessInput(sid) ==
    /\ turns < MaxTurns
    /\ \E o \in process_onboarding_input(sid, db, sessions) :
         /\ db' = o.db
         /\ sessions' = o.sessions
    /\ turns' = turns + 1
    /\ UNCHANGED <<userAttrs, websocket, onboarding_sessions, requests>>

StopOnboarding(sid) ==
    /\ turns < MaxTurns
    /\ \E o \in stop_onboarding(sid, sessions) : sessions' = o.sessions
    /\ turns' = turns + 1
    /\ UNCHANGED <<userAttrs, db, websocket, onboarding_sessions, requests>>

(* a client connects and authenticates as Ann; session_id is a new uuid,   *)
(* so an id that still has an entry is not given out again                 *)
WsConnect(w) ==
    /\ turns < MaxTurns
    /\ ~websocket.open
    /\ w \notin DOMAIN onboarding_sessions
    /\ websocket' = [open |-> TRUE, session_id |-> w,
                     existing_user_data |-> ExistingUserData(db[Ann])]
    /\ turns' = turns + 1
    /\ UNCHANGED <<userAttrs, db, sessions, onboarding_sessions, requests>>

WsFrame(kind) ==
    /\ turns < MaxTurns
    /\ websocket.open
    /\ \E o \in ws_turn(kind, db, websocket, onboarding_sessions) :
         /\ db' = o.db
         /\ websocket' = o.websocket
         /\ onboarding_sessions' = o.onboarding_sessions
    /\ turns' = turns + 1
    /\ UNCHANGED <<userAttrs, sessions, requests>>

WsUserMessage == WsFrame("user_message")

WsUserAudio == WsFrame("user_audio")

(* WebSocketDisconnect: the session entry is deleted *)
WsDisconnect ==
    /\ turns < MaxTurns
    /\ websocket.open
    /\ onboarding_sessions' =
         [k \in DOMAIN onboarding_sessions \ {websocket.session_id} |->
             onboarding_sessions[k]]
    /\ websocket' = Closed
    /\ turns' = turns + 1
    /\ UNCHANGED <<userAttrs, db, sessions, requests>>

(* a frame that is not JSON: the handler sends an error and closes; the    *)
(* session entry stays                                                     *)
WsBadFrame ==
    /\ turns < MaxTurns
    /\ websocket.open
    /\ websocket' = Closed
    /\ turns' = turns + 1
    /\ UNCHANGED <<userAttrs, db, sessions, onboarding_sessions, requests>>

Next ==
    \/ \E sid \in SessionIds : StartOnboarding(sid)
    \/ \E sid \in SessionIds : ProcessInput(sid)
    \/ \E sid \in SessionIds : StopOnboarding(sid)
    \/ \E w \in WsIds : WsConnect(w)
    \/ WsUserMessage
    \/ WsUserAudio
    \/ WsDisconnect
    \/ WsBadFrame

Spec == Init /\ [][Next]_vars

(* ---------------------------------------------------------------------- *)
(* Properties                                                              *)
(* ---------------------------------------------------------------------- *)

(* every outcome of a POST /onboarding/input in the current state *)
HttpTurns ==
    UNION {process_onboarding_input(sid, db, sessions) : sid \in SessionIds}

(* every outcome of a user_message or user_audio frame in the current state *)
WsTurns ==
    IF websocket.open
    THEN ws_turn("user_message", db, websocket, onboarding_sessions)
         \cup ws_turn("user_audio", db, websocket, onboarding_sessions)
    ELSE {}

CatalogFields == Range(onboarding_fields)

IsOnboardedFlag(store, e) == Get(store[e], "is_onboarded")

(* a turn on a state whose status is onboarded does not end pending_info *)
TerminalStable(o) ==
    (~o.raised /\ o.before.onboarding_status = "onboarded")
        => o.status # "pending_info"

KeepsKnownFields(o) ==
    ~o.raised =>
        \A e \in Emails : \A f \in CatalogFields \cap DOMAIN db[e] :
            (~StateMissing(db[e][f]) /\ f \notin DOMAIN o.tr.extracted)
                => ~StateMissing(o.db[e][f])

C3_ExtractedFieldsWritten ==
    /\ \A o \in HttpTurns : ~o.raised => o.tr.unsaved = {}
    /\ \A o \in WsTurns : ~o.raised => o.tr.unsaved = {}

(* the flag is not taken back, and a turn that marked the user onboarded   *)
(* leaves a durable record with no missing field                           *)
MarksOnlyComplete(o) ==
    /\ \A e \in Emails :
          IsOnboardedFlag(db, e) = "True" => IsOnboardedFlag(o.db, e) = "True"
    /\ (~o.raised /\ o.tr.mark = "ok") =>
          LET e == o.state.extracted_information["email"]
          IN MissingFieldsOf(CurrentStateOf(o.db[e])) = <<>>

SameVerdict(v) ==
    /\ ExtractionKeeps(v) = ~StateMissing(v)
    /\ ~StateMissing(v) = ~Falsy(v)

(* the values of field f a turn handles: the one the completion output     *)
(* holds, the one on the durable record, the one in the conversation state *)
ValuesHandled(o, f) ==
    {Get(model_dump(LLMOutput(o.inp.u)), f), Get(o.db[Ann], f),
     Get(o.state.extracted_information, f)}

(* C5: Uniform presence rule. For every catalog field and every value, the *)
(* presence test of extraction filtering, of the durable missing-field     *)
(* computation and of the degraded-mode missing-field computation give the *)
(* same verdict.                                                           *)
C5_UniformPresence ==
    \A o \in HttpTurns \cup WsTurns : \A f \in CatalogFields :
        \A v \in ValuesHandled(o, f) : SameVerdict(v)

(* a turn all of whose completion calls fail, that has an email and a      *)
(* non-empty missing list                                                  *)
Degraded(o) ==
    /\ ~o.raised
    /\ o.tr.called
    /\ o.env.llm = "fail"
    /\ o.env.restyle = "fail"
    /\ ~Falsy(o.tr.key)
    /\ o.tr.missing # <<>>

AsksBaseQuestion(o) ==
    Degraded(o) =>
        /\ o.tr.extracted = EmptyDict
        /\ o.status = "pending_info"
        /\ o.message = BaseQuestion(o.tr.missing[1], o.state.extracted_information)

(* C6: Graceful degradation. When every completion call fails, extraction  *)
(* gives the empty map for every utterance, and a turn on an utterance     *)
(* with a known email, whose missing list (the durable one when the read   *)
(* succeeds, the degraded one otherwise) is not empty, ends with status    *)
(* pending_info and the base question of the first missing field as its    *)
(* response.                                                               *)
C6_GracefulDegradation ==
    /\ \A u \in Utterances : extract_user_information(u, "fail") = EmptyDict
    /\ \A o \in HttpTurns : AsksBaseQuestion(o)
    /\ \A o \in WsTurns : AsksBaseQuestion(o)

(* a resumed conversation in which a degraded turn tries to restyle the    *)
(* question and falls back to the base question                            *)
C6_Witness ==
    \E o \in HttpTurns \cup WsTurns :
        /\ Degraded(o)
        /\ ~o.fresh
        /\ Cardinality(DOMAIN o.state.extracted_information) > ContextThreshold
        /\ o.status = "pending_info"
        /\ o.message = BaseQuestion(o.tr.missing[1], o.state.extracted_information)

(* what the client sees of a turn, and what the turn leaves on the store *)
Observable(o) ==
    [message |-> o.message, status |-> o.status, progress |-> o.progress,
     db |-> o.db]

Responds(o) == o.graph # "none" => (~o.raised /\ o.message # <<>>)

(* C8: Every turn driven through run_onboarding_agent or                   *)
(* continue_onboarding_conversation hands the transport a state with a     *)
(* non-empty system_response; no failure, the graph execution's included,  *)
(* reaches the caller as an HTTP 500 or a WebSocket error message.         *)
C8_AlwaysResponds ==
    /\ \A o \in HttpTurns : Responds(o)
    /\ \A o \in WsTurns : Responds(o)

FailsOnFailedMark(o) ==
    (~o.raised /\ o.tr.mark = "fail") =>
        /\ o.status = "failed"
        /\ o.message = <<"Onboarding failed", o.tr.message>>
        /\ \A e \in Emails : IsOnboardedFlag(o.db, e) = IsOnboardedFlag(db, e)

(* C9: When the missing list of a turn with a known email is empty and the *)
(* mark-onboarded write fails, the turn ends with status failed and a      *)
(* response holding the save error message, never onboarded, and nothing   *)
(* later in the request sets is_onboarded.                                 *)
C9_FailedMarkWrite ==
    /\ \A o \in HttpTurns : FailsOnFailedMark(o)
    /\ \A o \in WsTurns : FailsOnFailedMark(o)

(* a session stored by a turn whose mark-onboarded write failed, on which  *)
(* the write fails again                                                   *)
C9_Witness ==
    \E o \in HttpTurns :
        /\ ~o.raised
        /\ ~o.fresh
        /\ o.before.onboarding_status = "failed"
        /\ o.tr.mark = "fail"
        /\ o.tr.message # ""
        /\ o.status = "failed"
        /\ IsOnboardedFlag(o.db, Ann) # "True"

(* the nine onboarding fields are present on the record *)
NineOnRecord(user) ==
    \A f \in Range(ONBOARDING_REQUIRED_FIELDS) :
        f \in DOMAIN user /\ ~StateMissing(user[f])

CompletesWhenNinePresent(o) ==
    (/\ NineOnRecord(db[Ann])
     /\ ~o.raised
     /\ o.tr.called
     /\ o.tr.key = Ann
     /\ o.tr.read = "ok"
     /\ o.env.read2
     /\ o.env.save2)
        => /\ o.tr.missing = <<>>
           /\ IsOnboardedFlag(o.db, Ann) = "True"
           /\ o.status = "onboarded"

StartTurns ==
    UNION {start_onboarding(sid, db, _cleanup_session_state(sessions, sid))
           : sid \in SessionIds}

(* the catalog fields present on a record as the store holds it *)
PresentOnRecord(user) ==
    {f \in CatalogFields : ~StateMissing(Get(user, f))}

(* the same as get_user_onboarding_state reports the record: a            *)
(* preferred_languages that is not set reads as ["en"]                     *)
PresentAsRead(user) == PresentOnRecord(user) \cup {"preferred_languages"}

ProgressOfRecord(o) ==
    ~o.raised =>
        o.progress \in {(100 * Cardinality(PresentOnRecord(o.db[Ann]))) \div Len(onboarding_fields),
                        (100 * Cardinality(PresentAsRead(o.db[Ann]))) \div Len(onboarding_fields)}

(* C11: The progress of every /start and /input response is 100 times the  *)
(* number of catalog fields present on the durable record when the         *)
(* response is built, over the number of catalog fields, whatever the      *)
(* conversation state holds and whether or not the turn's durable read     *)
(* succeeded.                                                              *)
C11_ProgressFromRecord ==
    /\ \A o \in StartTurns : ProgressOfRecord(o)
    /\ \A o \in HttpTurns : ProgressOfRecord(o)

TerminalStatuses == {"onboarded", "failed"}

(* every outcome of a POST /onboarding/stop in the current state *)
StopTurns == UNION {stop_onboarding(sid, sessions) : sid \in SessionIds}

(* a turn that ends in a terminal status leaves no mapping for its session *)
HttpSessionDropped(o) ==
    (~o.raised /\ o.status \in TerminalStatuses) => o.sid \notin DOMAIN o.sessions

WsSessionDropped(o) ==
    (~o.raised /\ o.status \in TerminalStatuses)
        => websocket.session_id \notin DOMAIN o.onboarding_sessions

(* an utterance on a session whose stored status is terminal does not run  *)
(* the graph                                                               *)
TerminalNotRouted(o) ==
    (~o.fresh /\ o.before.onboarding_status \in TerminalStatuses)
        => (o.graph = "none" \/ (o.graph = "ok" /\ o.tr.path = <<>>))

(* C12: Once a turn ends with status onboarded or failed, the session      *)
(* mapping of that session is removed and no later utterance on the        *)
(* session runs through the dialogue graph; an explicit stop removes the   *)
(* mapping too. This holds for the HTTP session store and for the          *)
(* WebSocket session map.                                                  *)
C12_TerminalCleanup ==
    /\ \A o \in HttpTurns : HttpSessionDropped(o) /\ TerminalNotRouted(o)
    /\ \A o \in WsTurns : WsSessionDropped(o) /\ TerminalNotRouted(o)
    /\ \A o \in StopTurns : o.cleans => o.sid \notin DOMAIN o.sessions

(* the map a turn's extraction returned has entries only for fields the    *)
(* completion output set                                                   *)
OnlyGivenFields(o) ==
    (~o.raised /\ o.tr.called /\ o.env.llm = "ok") =>
        DOMAIN o.tr.extracted \subseteq DOMAIN LLMOutput(o.state.transcribed_text)

(* C13: The map extract_user_information returns has an entry only for the *)
(* fields to which the structured output of the completion call gave a     *)
(* value: a field the output left at its schema default, is_tourist and    *)
(* preferred_languages included, has no entry.                             *)
C13_NoDefaultEntries ==
    /\ \A u \in Utterances :
          DOMAIN extract_user_information(u, "ok") \subseteq DOMAIN LLMOutput(u)
    /\ \A o \in HttpTurns : OnlyGivenFields(o)
    /\ \A o \in WsTurns : OnlyGivenFields(o)

(* the fields of the full catalog, in catalog order, that are not present  *)
(* in info under the record's presence rule                                *)
CatalogMissing(info) ==
    SelectSeqBy(onboarding_fields,
                {f \in Range(onboarding_fields) : StateMissing(Get(info, f))})

(* the same under the truthiness rule of the degraded test *)
CatalogFalsy(info) ==
    SelectSeqBy(onboarding_fields,
                {f \in Range(onboarding_fields) : Falsy(Get(info, f))})

(* a turn with a known email whose durable read failed *)
ReadFailed(o) ==
    /\ ~o.raised
    /\ o.tr.called
    /\ ~Falsy(o.tr.key)
    /\ o.tr.read = "fail"

(* its missing list is the full catalog's, under the record's presence     *)
(* rule or under the truthiness rule, over the local and extracted fields  *)
DegradedUsesCatalog(o) ==
    ReadFailed(o) =>
        /\ o.tr.missing \in {CatalogMissing(o.state.extracted_information),
                             CatalogFalsy(o.state.extracted_information)}
        /\ o.message # <<>>
        /\ o.status \in {"pending_info", "onboarded", "failed"}

(* C14: Degraded mode. When the durable read of a turn with a known email  *)
(* fails, the missing list is exactly the fields of the full catalog,      *)
(* phone included, that are not present in the union of the local and the  *)
(* newly extracted fields, and the turn ends with a question or a          *)
(* completion response, without an exception.                              *)
C14_DegradedCatalog ==
    /\ \A o \in HttpTurns : DegradedUsesCatalog(o)
    /\ \A o \in WsTurns : DegradedUsesCatalog(o)

(* a turn that reached reconciliation with no email in its local fields    *)
NoEmailKnown(o) ==
    /\ ~o.raised
    /\ o.tr.called
    /\ Falsy(o.tr.key)

ShortCircuits(o) ==
    NoEmailKnown(o) =>
        /\ o.tr.read = "skip"
        /\ o.tr.wrote = {}
        /\ o.tr.mark = "skip"
        /\ o.db = db
        /\ o.message = <<"ask email">>
        /\ o.status = "pending_info"

(* C15: In a turn on an utterance in which no email is known, neither in   *)
(* the conversation's local fields nor from the extraction, no durable     *)
(* record is read or written, the response asks for the email and the turn *)
(* ends with status pending_info.                                          *)
C15_NoEmailShortCircuit ==
    /\ \A o \in HttpTurns : ShortCircuits(o)
    /\ \A o \in WsTurns : ShortCircuits(o)

(* a frame on a WebSocket session whose stored state has no email, the     *)
(* graph of the first frame having raised: the turn extracts fields and    *)
(* asks for the email                                                      *)
C15_Witness ==
    \E o \in WsTurns :
        /\ NoEmailKnown(o)
        /\ ~o.fresh
        /\ o.tr.extracted # EmptyDict
        /\ o.message = <<"ask email">>
        /\ o.status = "pending_info"

(* a turn whose audio input failed transcription *)
AudioFailed(o) ==
    /\ ~o.raised
    /\ o.graph = "ok"
    /\ o.inp.kind = "audio"
    /\ o.inp.u = "fail"

GoesToFailureResponse(o) ==
    AudioFailed(o) =>
        /\ ~o.tr.called
        /\ o.db = db
        /\ o.state.onboarding_status = o.before.onboarding_status
        /\ o.message # <<>>
        /\ o.message[1] = "apology"

(* C16: A turn whose audio input fails transcription goes to a failure     *)
(* response: extract_user_information is not called, not even on the text  *)
(* an earlier turn transcribed, no durable record is written, the status   *)
(* is the one before the turn and the response is an apology.              *)
C16_FailedAudio ==
    \A o \in WsTurns : GoesToFailureResponse(o)

(* the first field, in catalog order, that is not present on the record as *)
(* the durable read reports it; None when every field is present           *)
FirstAbsentOnRecord(user) ==
    LET cs == CurrentStateOf(user)
        absent == {i \in 1..Len(onboarding_fields) : StateMissing(cs[onboarding_fields[i]])}
    IN IF absent = {} THEN None
       ELSE onboarding_fields[CHOOSE i \in absent : \A j \in absent : i <= j]

(* a turn that ends pending_info after a successful durable read, with a   *)
(* known email                                                             *)
PendingAfterRead(o) ==
    /\ ~o.raised
    /\ o.tr.called
    /\ ~Falsy(o.tr.key)
    /\ o.tr.read = "ok"
    /\ o.status = "pending_info"

(* the field a question asks about *)
IsQuestion(message) == message # <<>> /\ message[1] \in {"question", "restyled"}

(* when a field is absent from the record after the turn's writes, the     *)
(* response is a question about the first such field, unless the restyling *)
(* call answered with blank text                                           *)
AsksFirstAbsent(o) ==
    (PendingAfterRead(o) /\ FirstAbsentOnRecord(o.db[o.tr.key]) # None) =>
        /\ IsQuestion(o.message) => o.message[2] = FirstAbsentOnRecord(o.db[o.tr.key])
        /\ o.env.restyle # "empty" => IsQuestion(o.message)

StillAbsent(o, f) ==
    /\ StateMissing(Get(o.db[Ann], f))
    /\ StateMissing(Get(o.state.extracted_information, f))

(* o2 follows o1 on the same session: a question about a field that is     *)
(* still absent is asked again                                             *)
KeepsAsking(o1, o2) ==
    (/\ ~o2.raised
     /\ ~o2.fresh
     /\ o1.tr.key = Ann
     /\ o2.tr.key = Ann
     /\ IsQuestion(o2.message)
     /\ StillAbsent(o2, o1.message[2]))
        => o2.message[2] = o1.message[2]

(* C18: For two consecutive turns of one session that both end with a      *)
(* question: when the first asked about field f and f is still not present *)
(* after the second, the second asks about f too, whichever of the normal  *)
(* and the degraded path each turn took.                                   *)
C18_NoQuestionRegression ==
    /\ \A o1 \in HttpTurns :
          (~o1.raised /\ o1.stores /\ IsQuestion(o1.message)) =>
              \A o2 \in process_onboarding_input(o1.sid, o1.db, o1.sessions) :
                  KeepsAsking(o1, o2)
    /\ \A o1 \in WsTurns :
          (~o1.raised /\ IsQuestion(o1.message)) =>
              \A kind \in {"user_message", "user_audio"} :
                  \A o2 \in ws_turn(kind, o1.db, o1.websocket, o1.onboarding_sessions) :
                      KeepsAsking(o1, o2)

(* a turn that ends onboarded answers with the congratulation, which holds *)
(* the first name the conversation state has                               *)
Congratulates(o) ==
    (~o.raised /\ o.status = "onboarded") =>
        o.message = Congratulations(GetDefault(o.state.extracted_information,
                                               "first_name", "''"))

FailedOnlyByMark(o) ==
    (~o.raised /\ o.state.onboarding_status = "failed") => o.tr.mark = "fail"

(* a turn in which a collaborator other than the mark-onboarded write      *)
(* failed                                                                  *)
OtherFailure(o) ==
    \/ (o.inp.kind = "audio" /\ o.inp.u = "fail")
    \/ (o.tr.called /\ o.env.llm = "fail")
    \/ (o.tr.restyled /\ o.env.restyle = "fail")
    \/ (o.tr.called /\ ~o.env.save1)
    \/ o.tr.read = "fail"

(* C20: In any turn the status becomes failed only if the mark-onboarded   *)
(* durable write was attempted in that turn and failed: a failure of       *)
(* transcription, extraction, question restyling, the immediate save or    *)
(* the durable read does not by itself set the status to failed.           *)
C20_FailedOnlyByMarkWrite ==
    /\ \A o \in HttpTurns : FailedOnlyByMark(o)
    /\ \A o \in WsTurns : FailedOnlyByMark(o)
    /\ \A o \in HttpTurns \cup WsTurns :
          (~o.raised /\ OtherFailure(o) /\ o.tr.mark # "fail")
              => o.state.onboarding_status # "failed"

(* on a session stored with status failed, a turn whose audio fails        *)
(* transcription and whose durable read fails ends pending_info, and a     *)
(* turn whose mark-onboarded write fails ends failed                       *)
C20_Witness ==
    /\ \E o \in WsTurns :
          /\ ~o.raised
          /\ ~o.fresh
          /\ o.before.onboarding_status = "failed"
          /\ o.inp.kind = "audio" /\ o.inp.u = "fail"
          /\ o.tr.mark = "skip"
          /\ o.status = "pending_info"
    /\ \E o \in WsTurns :
          /\ ~o.raised
          /\ o.before.onboarding_status = "failed"
          /\ o.tr.mark = "fail"
          /\ o.status = "failed"

(* a turn whose input is neither audio nor text, or is an empty text *)
NoUsableInput(o) ==
    /\ ~o.raised
    /\ o.graph = "ok"
    /\ \/ o.inp.kind = "empty_bytes"
       \/ (o.inp.kind = "text" /\ o.inp.u = "''")

LeavesStateAlone(o) ==
    NoUsableInput(o) =>
        /\ o.state.onboarding_status = o.before.onboarding_status
        /\ o.state.extracted_information = o.before.extracted_information
        /\ o.db = db
        /\ o.message # <<>>
        /\ o.message[1] = "apology"

(* C21: A turn with no usable input (neither bytes nor a string, or an     *)
(* empty text) leaves the status, the accumulated extracted_information    *)
(* and the durable record as they were, whatever the status before the     *)
(* turn, and answers with an apology.                                      *)
C21_NoInputFrame ==
    /\ \A o \in HttpTurns : LeavesStateAlone(o)
    /\ \A o \in WsTurns : LeavesStateAlone(o)

(* onboarding_status as the handlers read it: "pending_info" when not set *)
StatusRead(st) ==
    IF st.onboarding_status = None THEN "pending_info" ELSE st.onboarding_status

(* the state a /input on session sid starts from, given the store and the *)
(* session mappings                                                        *)
HttpConversation(store, sess, sid) ==
    IF sid \in DOMAIN sess THEN LoadedState(sess[sid]) ELSE FreshState(store[Ann])

(* the state a frame on the connection starts from *)
WsConversation(ws, wsess) ==
    IF ws.session_id \in DOMAIN wsess THEN wsess[ws.session_id].state
    ELSE OnboardingAgentState(ws.existing_user_data, "pending_info", <<>>, None)

KeepsConversation(o, prior, kept) ==
    o.graph = "raised" =>
        /\ kept.extracted_information = prior.extracted_information
        /\ StatusRead(kept) = StatusRead(prior)

(* C22: When the execution of the graph raises during a turn, the          *)
(* conversation state kept for the session afterwards still holds the      *)
(* extracted_information and the status it had before the turn, so the     *)
(* next turn resumes from them.                                            *)
C22_FailureKeepsSession ==
    /\ \A o \in HttpTurns :
          KeepsConversation(o, HttpConversation(db, sessions, o.sid),
                            HttpConversation(o.db, o.sessions, o.sid))
    /\ \A o \in WsTurns :
          KeepsConversation(o, WsConversation(websocket, onboarding_sessions),
                            WsConversation(o.websocket, o.onboarding_sessions))

(* a turn with a known email whose durable read succeeded *)
ReadSucceeded(o) ==
    /\ ~o.raised
    /\ o.tr.called
    /\ ~Falsy(o.tr.key)
    /\ o.tr.read = "ok"

(* the value field f has in the three layers, the newest layer first *)
LayeredValue(o, f) ==
    IF f \in DOMAIN o.tr.extracted THEN o.tr.extracted[f]
    ELSE IF f \in DOMAIN o.before.extracted_information
         THEN o.before.extracted_information[f]
    ELSE o.tr.seen[f]

MergedViewLayers(o) ==
    ReadSucceeded(o) =>
        LET view == o.state.extracted_information
        IN /\ DOMAIN view = DOMAIN o.tr.extracted
                              \cup DOMAIN o.before.extracted_information
                              \cup DOMAIN o.tr.seen
           /\ \A f \in DOMAIN view : view[f] = LayeredValue(o, f)
           /\ o.tr.mark # "ok" => o.tr.seen = CurrentStateOf(o.db[o.tr.key])

Visits(path, n) == Cardinality({i \in 1..Len(path) : path[i] = n})

(* the runs the graph's edges allow *)
GraphPaths ==
    {<<"transcription", "info_extraction", "generate_response">>,
     <<"transcription", "info_extraction", "onboarding_complete", "generate_response">>,
     <<"transcription", "info_extraction", "onboarding_complete", "end_interaction">>}

OneResponsePerRun(o) ==
    (~o.raised /\ o.graph = "ok") =>
        /\ o.tr.path \in GraphPaths
        /\ Visits(o.tr.path, "transcription") = 1
        /\ Visits(o.tr.path, "info_extraction") = 1
        /\ Visits(o.tr.path, "onboarding_complete") <= 1
        /\ Visits(o.tr.path, "generate_response") + Visits(o.tr.path, "end_interaction") = 1
        /\ o.message # <<>>

(* C24: Every invocation of the graph ends after finitely many node        *)
(* executions with exactly one response: transcription runs once,          *)
(* info_extraction once (and with it extract_user_information at most      *)
(* once), onboarding_complete at most once, exactly one of                 *)
(* generate_response and end_interaction once, and no node twice.          *)
C24_OneResponsePerTurn ==
    /\ \A o \in HttpTurns : OneResponsePerRun(o)
    /\ \A o \in WsTurns : OneResponsePerRun(o)

(* on a resumed session, a run that answers from info_extraction and a run *)
(* that goes through onboarding_complete                                   *)
C24_Witness ==
    /\ \E o \in HttpTurns \cup WsTurns :
          /\ ~o.raised /\ ~o.fresh
          /\ o.tr.called
          /\ o.tr.path = <<"transcription", "info_extraction", "generate_response">>
    /\ \E o \in HttpTurns \cup WsTurns :
          /\ ~o.raised /\ ~o.fresh
          /\ Visits(o.tr.path, "onboarding_complete") = 1
          /\ Len(o.tr.path) = 4

(* ---------------------------------------------------------------------- *)
(* POST /onboarding/input requests that overlap                            *)
(*                                                                         *)
(* A request is split at the points where the handler awaits: after        *)
(* info_extraction (the graph schedules the next node), and after the      *)
(* graph and _store_session_state (before _save_onboarding_to_user). Each  *)
(* step is one or more whole store queries.                                *)
(* ---------------------------------------------------------------------- *)
RequestIds == {"r1", "r2", "r3"}

(* request ids are given out in this order *)
RequestOrder == [r \in RequestIds |-> CASE r = "r1" -> 1 [] r = "r2" -> 2 [] OTHER -> 3]

OverlapSessions == {"s1", "s2"}

OverlapTexts == {TextInput(u) : u \in {"profile", "age", "hello"}}

(* what a request holds between two steps: user is the node                *)
(* get_current_user loaded, st the graph state, wrote the values its       *)
(* immediate save put on the record; running and finished are the         *)
(* requests that were under way, and those that had ended, when it began   *)
RequestRecord(phase, sid, user, st, tr) ==
    [phase |-> phase, sid |-> sid, user |-> user,
     st |-> st,
     extracted |-> tr.extracted,
     wrote |-> [f \in tr.wrote |-> tr.extracted[f]],
     running |-> {k \in DOMAIN requests : requests[k].phase # "done"},
     finished |-> {k \in DOMAIN requests : requests[k].phase = "done"}]

PutRequest(r, rec) ==
    [k \in DOMAIN requests \cup {r} |-> IF k = r THEN rec ELSE requests[k]]

(* the request authenticates, loads the session, and runs transcription    *)
(* and info_extraction; a state that needs more information is answered    *)
(* and stored at once                                                      *)
BeginInput(r, sid) ==
    /\ r \notin DOMAIN requests
    /\ \A k \in RequestIds : RequestOrder[k] < RequestOrder[r] => k \in DOMAIN requests
    /\ \E inp \in OverlapTexts :
         LET current_user == db[Ann]
             current_state == HttpConversation(db, sessions, sid)
             c1 == transcription_node([st |-> current_state, db |-> db, tr |-> NoTrace], inp)
         IN \E env \in ExtractionEnvs(c1) :
              LET c2 == information_extraction_node(c1, env)
                  pending == needs_more_info(c2.st)
              IN /\ env.restyle = "fail"
                 /\ db' = c2.db
                 /\ sessions' = IF pending
                                THEN PutSession(sessions, sid,
                                                StoredState(generate_response_node(c2).st))
                                ELSE sessions
                 /\ requests' = PutRequest(r,
                        RequestRecord(IF pending THEN "done" ELSE "onboarding_complete",
                                      sid, current_user, c2.st, c2.tr))
    /\ UNCHANGED <<userAttrs, websocket, onboarding_sessions, turns>>

(* onboarding_complete on the record as it is now, then the response and   *)
(* _store_session_state                                                    *)
CompleteInput(r) ==
    /\ r \in DOMAIN requests
    /\ requests[r].phase = "onboarding_complete"
    /\ LET q == requests[r]
           c2 == [st |-> q.st, db |-> db, tr |-> NoTrace]
       IN \E env \in CompletionEnvs(c2, NoEnv) :
            LET c3 == onboarding_complete_node(c2, env)
                c4 == IF is_onboarded(c3.st) THEN end_interaction_node(c3)
                      ELSE generate_response_node(c3)
                onboarded == c4.st.onboarding_status = "onboarded"
            IN /\ db' = c4.db
               /\ sessions' = PutSession(sessions, q.sid, StoredState(c4.st))
               /\ requests' = PutRequest(r,
                      [q EXCEPT !.phase = IF onboarded THEN "save_profile" ELSE "done",
                                !.st = c4.st])
    /\ UNCHANGED <<userAttrs, websocket, onboarding_sessions, turns>>

(* _save_onboarding_to_user on the node the request loaded at its start *)
SaveProfile(r) ==
    /\ r \in DOMAIN requests
    /\ requests[r].phase = "save_profile"
    /\ LET q == requests[r]
       IN /\ \E up \in BOOLEAN :
               db' = _save_onboarding_to_user(db, q.user, q.st.extracted_information, up)
          /\ requests' = PutRequest(r, [q EXCEPT !.phase = "done"])
    /\ UNCHANGED <<userAttrs, sessions, websocket, onboarding_sessions, turns>>

NextOverlap ==
    \/ \E r \in RequestIds : \E sid \in OverlapSessions : BeginInput(r, sid)
    \/ \E r \in RequestIds : CompleteInput(r)
    \/ \E r \in RequestIds : SaveProfile(r)

SpecOverlap == Init /\ [][NextOverlap]_vars

(* both requests are finished and ran at the same time *)
Overlapped(r1, r2) ==
    /\ r1 \in DOMAIN requests /\ r2 \in DOMAIN requests
    /\ r1 # r2
    /\ requests[r1].phase = "done" /\ requests[r2].phase = "done"
    /\ (r1 \in requests[r2].running \/ r2 \in requests[r1].running)

(* every other request had ended before either of the two began *)
NoOtherWriter(r1, r2) ==
    \A r \in DOMAIN requests \ {r1, r2} :
        r \in requests[r1].finished \cap requests[r2].finished

TargetsOwnRecord(o) ==
    (~o.raised /\ o.tr.called /\ ~Falsy(o.tr.key)) =>
        /\ o.tr.key = Ann
        /\ \A e \in Emails \ {Ann} : o.db[e] = db[e]

(* C26: Every durable read and write of a turn that authenticated user U   *)
(* drives targets U's own record: the identity key of the immediate save,  *)
(* of the missing-field read and of the mark-onboarded write is U's email, *)
(* whatever the extraction returns, an extracted email included.           *)
C26_OwnRecordOnly ==
    /\ \A o \in HttpTurns : TargetsOwnRecord(o)
    /\ \A o \in WsTurns : TargetsOwnRecord(o)

(* a response that reports status onboarded finds the flag set on the      *)
(* record of the user who sent the request                                 *)
ReportedOnboardedIsDurable(o) ==
    (~o.raised /\ o.status = "onboarded") => IsOnboardedFlag(o.db, Ann) = "True"

SettledStatuses == {"pending_info", "onboarded", "failed"}

(* a turn the graph completed, begun on a settled status *)
CompletedFromSettled(o) ==
    /\ ~o.raised
    /\ o.graph = "ok"
    /\ o.before.onboarding_status \in SettledStatuses

(* the status returned and the status kept for the session are settled *)
HttpEndsSettled(o) ==
    CompletedFromSettled(o) =>
        /\ o.status \in SettledStatuses
        /\ o.state.onboarding_status \in SettledStatuses
        /\ o.sid \in DOMAIN o.sessions =>
               o.sessions[o.sid].onboarding_status \in SettledStatuses

WsEndsSettled(o) ==
    CompletedFromSettled(o) =>
        /\ o.status \in SettledStatuses
        /\ o.state.onboarding_status \in SettledStatuses
        /\ o.websocket.session_id \in DOMAIN o.onboarding_sessions =>
               o.onboarding_sessions[o.websocket.session_id].state.onboarding_status
                   \in SettledStatuses

(* C28: At the end of every turn the graph completes, begun on a state     *)
(* whose status is pending_info, onboarded or failed, the status is one of *)
(* these three: ready is held only between info_extraction and             *)
(* onboarding_complete and is never returned to a transport or kept in a   *)
(* session.                                                                *)
C28_ReadyIsTransient ==
    /\ \A o \in HttpTurns : HttpEndsSettled(o)
    /\ \A o \in WsTurns : WsEndsSettled(o)

(* a completed turn on each transport passed through onboarding_complete, *)
(* so info_extraction had left the status ready                           *)
C28_Witness ==
    /\ \E o \in HttpTurns :
          /\ CompletedFromSettled(o)
          /\ Visits(o.tr.path, "onboarding_complete") = 1
          /\ o.sid \in DOMAIN o.sessions
          /\ o.status = "failed"
    /\ \E o \in WsTurns :
          /\ CompletedFromSettled(o)
          /\ Visits(o.tr.path, "onboarding_complete") = 1
          /\ o.status = "pending_info"

(* state.get("error") is empty *)
NoError(e) == e \in {None, ""}

(* a node of this turn recorded a failure: transcription got no usable     *)
(* input or failed, or info_extraction got no text                         *)
StepFailed(o) ==
    \/ o.raised
    \/ o.graph # "ok"
    \/ AudioFailed(o)
    \/ NoUsableInput(o)
    \/ ~o.tr.called

(* the error of the returned state is set only by a failure of this turn *)
ErrorIsOfThisTurn(o) ==
    (~o.raised /\ ~NoError(o.state.error)) => StepFailed(o)

(* C29: The error field of the state a turn returns is non-empty only if a *)
(* step of that same turn failed: an error recorded in an earlier turn of  *)
(* the session is not carried into the result of a later turn in which     *)
(* every step succeeded, for the WebSocket state held in memory and for    *)
(* the state the HTTP session store keeps and reloads.                     *)
C29_ErrorNotCarried ==
    /\ \A o \in HttpTurns : ErrorIsOfThisTurn(o)
    /\ \A o \in WsTurns : ErrorIsOfThisTurn(o)

(* the session ids of the connections that are open *)
OpenConnections == IF websocket.open THEN {websocket.session_id} ELSE {}

(* C30: After a WebSocket onboarding connection has ended, for whatever    *)
(* reason (the client disconnects, a message is not valid JSON, a send     *)
(* fails, any other exception leaves the receive loop), onboarding_sessions *)
(* holds no entry for that connection's session id: every entry belongs to *)
(* a connection that is open.                                              *)
C30_NoEntryAfterEnd ==
    DOMAIN onboarding_sessions \subseteq OpenConnections

====
